---------------------------- MODULE Spec2Model ----------------------------
(***************************************************************************)
(* The reconciliation-file ingestion task of upload/tasks.py               *)
(* (process_uploaded_files), with the two record tables of                 *)
(* upload/models.py.                                                       *)
(*                                                                         *)
(* Strings the code inspects character by character (column names, header  *)
(* lines) are sequences of one-character strings.  Cell contents the code  *)
(* only hands to int(), pd.to_numeric and pd.to_datetime are abstract      *)
(* cells [t, v] classed by what those conversions make of them.            *)
(***************************************************************************)
EXTENDS Integers, Sequences, FiniteSets, TLC

(***************************************************************************)
(* Bounds of the model.                                                    *)
(***************************************************************************)
\* invocations of the task in one behaviour
MaxRuns == 2
\* longest column name drawn for the normalization
MaxNameLen == 3
\* the largest numeral drawn for a cell of the coercion
MaxNumeral == 3

Workers == {"w1", "w2"}

(***************************************************************************)
(* Column names: the names and keys of BANK_MAPPINGS (tasks.py:27-94),     *)
(* the field names the task body reads (tasks.py:171-230), and header      *)
(* spellings used by the input files.                                      *)
(***************************************************************************)
N_TXN_DATE == <<"T", "X", "N", " ", "D", "A", "T", "E">>
N_IRCTC_ORDER_NO == <<"I", "R", "C", "T", "C", " ", "O", "R", "D", "E", "R", " ", "N", "O", ".">>
N_BANK_BOOKING_REF_NO == <<"B", "A", "N", "K", " ", "B", "O", "O", "K", "I", "N", "G", " ", "R", "E", "F", ".", "N", "O", ".">>
N_BOOKING_AMOUNT == <<"B", "O", "O", "K", "I", "N", "G", " ", "A", "M", "O", "U", "N", "T">>
N_CREDITED_ON == <<"C", "R", "E", "D", "I", "T", "E", "D", " ", "O", "N">>
N_REFUND_DATE == <<"R", "E", "F", "U", "N", "D", " ", "D", "A", "T", "E">>
N_BANK_REFUND_REF_NO == <<"B", "A", "N", "K", " ", "R", "E", "F", "U", "N", "D", " ", "R", "E", "F", ".", "N", "O", ".">>
N_REFUND_AMOUNT == <<"R", "E", "F", "U", "N", "D", " ", "A", "M", "O", "U", "N", "T">>
N_DEBITED_ON == <<"D", "E", "B", "I", "T", "E", "D", " ", "O", "N">>
N_REFUND_ORDER_NO == <<"R", "E", "F", "U", "N", "D", " ", "O", "R", "D", "E", "R", " ", "N", "O", ".">>
N_ORDER_NO == <<"O", "R", "D", "E", "R", " ", "N", "O", ".">>
N_REFERENCE_NO == <<"R", "E", "F", "E", "R", "E", "N", "C", "E", " ", "N", "O", ".">>
N_AMOUNT == <<"A", "M", "O", "U", "N", "T">>
N_CREDIT_DATE == <<"C", "R", "E", "D", "I", "T", " ", "D", "A", "T", "E">>
F_txn_date == <<"t", "x", "n", "_", "d", "a", "t", "e">>
F_credited_date == <<"c", "r", "e", "d", "i", "t", "e", "d", "_", "d", "a", "t", "e">>
F_refund_date == <<"r", "e", "f", "u", "n", "d", "_", "d", "a", "t", "e">>
F_debited_date == <<"d", "e", "b", "i", "t", "e", "d", "_", "d", "a", "t", "e">>
F_irctc_order_no == <<"i", "r", "c", "t", "c", "_", "o", "r", "d", "e", "r", "_", "n", "o">>
F_bank_booking_ref_no == <<"b", "a", "n", "k", "_", "b", "o", "o", "k", "i", "n", "g", "_", "r", "e", "f", "_", "n", "o">>
F_bank_refund_ref_no == <<"b", "a", "n", "k", "_", "r", "e", "f", "u", "n", "d", "_", "r", "e", "f", "_", "n", "o">>
F_booking_amount == <<"b", "o", "o", "k", "i", "n", "g", "_", "a", "m", "o", "u", "n", "t">>
F_refund_amount == <<"r", "e", "f", "u", "n", "d", "_", "a", "m", "o", "u", "n", "t">>
N_BRANCH_CODE == <<"B", "R", "A", "N", "C", "H", " ", "C", "O", "D", "E">>
N_OTHER_COLUMN == <<"O", "T", "H", "E", "R", " ", "C", "O", "L", "U", "M", "N">>
K_TXNDATE == <<"T", "X", "N", "D", "A", "T", "E">>
K_IRCTCORDERNO == <<"I", "R", "C", "T", "C", "O", "R", "D", "E", "R", "N", "O">>
K_BANKBOOKINGREFNO == <<"B", "A", "N", "K", "B", "O", "O", "K", "I", "N", "G", "R", "E", "F", "N", "O">>
K_BOOKINGAMOUNT == <<"B", "O", "O", "K", "I", "N", "G", "A", "M", "O", "U", "N", "T">>
K_CREDITEDON == <<"C", "R", "E", "D", "I", "T", "E", "D", "O", "N">>
K_REFUNDDATE == <<"R", "E", "F", "U", "N", "D", "D", "A", "T", "E">>
K_BANKREFUNDREFNO == <<"B", "A", "N", "K", "R", "E", "F", "U", "N", "D", "R", "E", "F", "N", "O">>
K_REFUNDAMOUNT == <<"R", "E", "F", "U", "N", "D", "A", "M", "O", "U", "N", "T">>
K_DEBITEDON == <<"D", "E", "B", "I", "T", "E", "D", "O", "N">>
F_sale_amount == <<"s", "a", "l", "e", "_", "a", "m", "o", "u", "n", "t">>
F_date == <<"d", "a", "t", "e">>
F_branch_code == <<"b", "r", "a", "n", "c", "h", "_", "c", "o", "d", "e">>
F_other_column == <<"o", "t", "h", "e", "r", "_", "c", "o", "l", "u", "m", "n">>
H_TXN_DATE_us == <<"T", "X", "N", "_", "D", "A", "T", "E">>
UnnamedPrefix == <<"U", "n", "n", "a", "m", "e", "d", ":", " ">>

(***************************************************************************)
(* Character classes of str.strip() and of the pattern \W (tasks.py:145-   *)
(* 146, 155) over the characters the model uses.                           *)
(***************************************************************************)
Letters ==
  {"A","B","C","D","E","F","G","H","I","J","K","L","M","N","O","P","Q","R",
   "S","T","U","V","W","X","Y","Z",
   "a","b","c","d","e","f","g","h","i","j","k","l","m","n","o","p","q","r",
   "s","t","u","v","w","x","y","z"}
Digits == {"0","1","2","3","4","5","6","7","8","9"}
Whitespace == {" ", "\t"}

\* \w of Python's re on str: letters, digits and the underscore
IsWordChar(c) == c \in Letters \cup Digits \cup {"_"}

RECURSIVE LStrip(_)
LStrip(s) ==
  IF s = <<>> THEN <<>>
  ELSE IF Head(s) \in Whitespace THEN LStrip(Tail(s)) ELSE s

RECURSIVE RStrip(_)
RStrip(s) ==
  IF s = <<>> THEN <<>>
  ELSE IF s[Len(s)] \in Whitespace THEN RStrip(SubSeq(s, 1, Len(s) - 1)) ELSE s

\* str.strip()
Strip(s) == RStrip(LStrip(s))

\* re.sub(r'\W+', '', x): every maximal run of non-word characters is deleted
ReSubNonWord(s) == SelectSeq(s, IsWordChar)

\* a cleaning that only strips the name
StripOnly(name) == Strip(name)

\* the cleaning of one column name: tasks.py:145-146 (headers), 155 (mapping)
CleanColumn(name) == ReSubNonWord(Strip(name))

CleanColumns(names) == [i \in 1..Len(names) |-> CleanColumn(names[i])]

InSeq(x, s) == \E i \in 1..Len(s) : s[i] = x

Chars(s) == {s[i] : i \in 1..Len(s)}

(***************************************************************************)
(* BANK_CODE_MAPPING and BANK_MAPPINGS.  The task reads and rewrites the   *)
(* 'columns' lists; the 'column_mapping' dictionaries are declared beside  *)
(* them and read nowhere in the task.                                      *)
(***************************************************************************)
Banks == {"hdfc", "icici", "karur_vysya", "unknown_bank"}
Kinds == {"booking", "refund", "settlement"}

CodeHdfc == 101
CodeIcici == 102
CodeKarurVysya == 40
NoCode == 0

\* BANK_CODE_MAPPING.get(bank_name): None is modelled as NoCode
BANK_CODE_MAPPING(bank) ==
  CASE bank = "hdfc" -> CodeHdfc
    [] bank = "icici" -> CodeIcici
    [] bank = "karur_vysya" -> CodeKarurVysya
    [] OTHER -> NoCode

\* no entry: .get(...) returns None (or the {} default), which is falsy
NoMapping == <<>>

\* BANK_MAPPINGS as the module is imported: [bank][kind]['columns']
BANK_MAPPINGS ==
  [b \in Banks |-> [k \in Kinds |->
    CASE b = "hdfc" /\ k = "booking" ->
           <<N_IRCTC_ORDER_NO, N_BANK_BOOKING_REF_NO, N_BOOKING_AMOUNT>>
      [] b = "hdfc" /\ k = "refund" ->
           <<N_REFUND_ORDER_NO, N_REFUND_AMOUNT, N_CREDITED_ON>>
      [] b = "icici" /\ k = "booking" ->
           <<N_ORDER_NO, N_REFERENCE_NO, N_AMOUNT>>
      [] b = "icici" /\ k = "refund" ->
           <<N_ORDER_NO, N_REFUND_AMOUNT, N_CREDIT_DATE>>
      [] b = "karur_vysya" /\ k = "booking" ->
           <<N_TXN_DATE, N_IRCTC_ORDER_NO, N_BANK_BOOKING_REF_NO,
             N_BOOKING_AMOUNT, N_CREDITED_ON>>
      [] b = "karur_vysya" /\ k = "refund" ->
           <<N_REFUND_DATE, N_IRCTC_ORDER_NO, N_BANK_BOOKING_REF_NO,
             N_BANK_REFUND_REF_NO, N_REFUND_AMOUNT, N_DEBITED_ON>>
      [] OTHER -> NoMapping]]

\* BANK_MAPPINGS[bank][kind]['column_mapping'] as pairs <<key, field>>
column_mapping(bank, kind) ==
  CASE bank = "hdfc" /\ kind = "booking" ->
         { <<N_IRCTC_ORDER_NO, F_irctc_order_no>>,
           <<N_BANK_BOOKING_REF_NO, F_bank_booking_ref_no>>,
           <<N_BOOKING_AMOUNT, F_sale_amount>> }
    [] bank = "hdfc" /\ kind = "refund" ->
         { <<N_REFUND_ORDER_NO, F_irctc_order_no>>,
           <<N_REFUND_AMOUNT, F_sale_amount>>,
           <<N_CREDITED_ON, F_date>> }
    [] bank = "icici" /\ kind = "booking" ->
         { <<N_ORDER_NO, F_irctc_order_no>>,
           <<N_REFERENCE_NO, F_bank_booking_ref_no>>,
           <<N_AMOUNT, F_sale_amount>>,
           <<N_BRANCH_CODE, F_branch_code>>,
           <<N_OTHER_COLUMN, F_other_column>> }
    [] bank = "icici" /\ kind = "refund" ->
         { <<N_ORDER_NO, F_irctc_order_no>>,
           <<N_REFUND_AMOUNT, F_sale_amount>>,
           <<N_CREDIT_DATE, F_date>>,
           <<N_BRANCH_CODE, F_branch_code>>,
           <<N_OTHER_COLUMN, F_other_column>> }
    [] bank = "karur_vysya" /\ kind = "booking" ->
         { <<K_TXNDATE, F_txn_date>>,
           <<K_IRCTCORDERNO, F_irctc_order_no>>,
           <<K_BANKBOOKINGREFNO, F_bank_booking_ref_no>>,
           <<K_BOOKINGAMOUNT, F_booking_amount>>,
           <<K_CREDITEDON, F_credited_date>> }
    [] bank = "karur_vysya" /\ kind = "refund" ->
         { <<K_REFUNDDATE, F_refund_date>>,
           <<K_IRCTCORDERNO, F_irctc_order_no>>,
           <<K_BANKBOOKINGREFNO, F_bank_booking_ref_no>>,
           <<K_BANKREFUNDREFNO, F_bank_refund_ref_no>>,
           <<K_REFUNDAMOUNT, F_refund_amount>>,
           <<K_DEBITEDON, F_debited_date>> }
    [] OTHER -> {}

\* BANK_MAPPINGS.get(bank_name, {}).get(transaction_type) found an entry
HasMapping(reg, bank, kind) ==
  bank \in Banks /\ kind \in Kinds /\ reg[bank][kind] # NoMapping

(***************************************************************************)
(* Cells.  Every cell of a loaded table is a string or NaN (dtype=str,     *)
(* tasks.py:132, 136, 142).  A cell is classed by what the three           *)
(* conversions of the task make of its text:                               *)
(*   "nan"   an empty field (NaN)                                          *)
(*   "blank" a whitespace-only string                                      *)
(*   "int"   a decimal numeral, v = <<n>>                                  *)
(*   "dec"   a numeral with a fraction, v = <<hundredths>>                 *)
(*   "date"  a date literal one of the five explicit formats accepts,      *)
(*           v = <<y, m, d>>, the date under the first format that does    *)
(*   "text"  any other text                                                *)
(***************************************************************************)
Cell(t, v) == [t |-> t, v |-> v]
NaN == Cell("nan", <<>>)
Blank == Cell("blank", <<>>)
Num(n) == Cell("int", <<n>>)
Dec(h) == Cell("dec", <<h>>)
DateText(y, m, d) == Cell("date", <<y, m, d>>)
Junk == Cell("text", <<>>)

\* pd.NaT, and the NaN pd.to_numeric coerces to: the "missing" value
Missing == <<>>

\* pd.isnull
IsNull(c) == c.t = "nan"

\* try_parse_date (tasks.py:97-117).  Date columns hold "nan", "blank",
\* "date" and "text" cells; the generic parse of line 114 coerces text no
\* format accepted to NaT.
try_parse_date(c) ==
  IF IsNull(c) \/ c.t = "blank" THEN Missing
  ELSE IF c.t = "date" THEN c.v
  ELSE Missing

\* int(x) raises ValueError on anything but a numeral
IntRaises(c) == c.t # "int"

\* int(x) if pd.notnull(x) else 0   (tasks.py:183-184, 213-215)
IntOrZero(c) == IF ~IsNull(c) THEN c.v[1] ELSE 0

\* the same expression raises exactly when the cell is not null and int() does
IntOrZeroRaises(c) == ~IsNull(c) /\ IntRaises(c)

\* pd.to_numeric(x, errors='coerce') in hundredths   (tasks.py:185, 216)
to_numeric(c) ==
  CASE c.t = "int" -> <<c.v[1] * 100>>
    [] c.t = "dec" -> c.v
    [] OTHER -> Missing

(***************************************************************************)
(* The loader, tasks.py:124-147 and convert_to_csv, tasks.py:259-286.      *)
(* A file is [name, ext, sep, header, extra, rows]: for a delimited text   *)
(* its header line is the names of header joined by sep, extra is the set  *)
(* of candidate delimiter characters that occur in its data cells, and     *)
(* rows are its data rows as sep splits them.                              *)
(***************************************************************************)
possible_delimiters == <<",", ";", "\t", "|", " ", ".", "_">>

RECURSIVE Join(_, _)
Join(names, sep) ==
  IF names = <<>> THEN <<>>
  ELSE IF Len(names) = 1 THEN names[1]
  ELSE names[1] \o <<sep>> \o Join(Tail(names), sep)

\* str.split on one character, as the csv reader splits an unquoted line:
\* the fields between consecutive occurrences of the delimiter
SplitOn(line, d) ==
  LET at == {i \in 1..Len(line) : line[i] = d}
      cut(k) == IF k = 0 THEN 0
                ELSE IF k = Cardinality(at) + 1 THEN Len(line) + 1
                ELSE CHOOSE p \in at : Cardinality({q \in at : q < p}) = k - 1
  IN [k \in 1..(Cardinality(at) + 1) |-> SubSeq(line, cut(k - 1) + 1, cut(k) - 1)]

RECURSIVE DecimalDigits(_)
DecimalDigits(n) ==
  LET ds == <<"0","1","2","3","4","5","6","7","8","9">>
  IN IF n < 10 THEN <<ds[n + 1]>>
     ELSE DecimalDigits(n \div 10) \o <<ds[(n % 10) + 1]>>

\* pandas names a column whose header field is empty "Unnamed: <position>"
HeaderNames(fields) ==
  [i \in 1..Len(fields) |->
     IF fields[i] = <<>> THEN UnnamedPrefix \o DecimalDigits(i - 1)
     ELSE fields[i]]

\* the characters of the decoded text among the candidate delimiters
TextDelimiters(f) ==
  {c \in Chars(Join(f.header, f.sep)) \cup f.extra : InSeq(c, possible_delimiters)}

\* next((delim for delim in possible_delimiters if delim in file_str), ',')
RECURSIVE FirstIn(_, _)
FirstIn(cands, present) ==
  IF cands = <<>> THEN ","
  ELSE IF Head(cands) \in present THEN Head(cands)
  ELSE FirstIn(Tail(cands), present)

Delimiter(f) == FirstIn(possible_delimiters, TextDelimiters(f))

Frame(columns, rows) == [columns |-> columns, rows |-> rows]
NoFrame == Frame(<<>>, <<>>)

Loaded(frame) == [raised |-> "", frame |-> frame]
LoadError(e) == [raised |-> e, frame |-> NoFrame]

\* pd.read_csv(StringIO(text), delimiter=d, dtype=str).  Split on the
\* delimiter the file was written with, the rows are the file's rows; split
\* on another one, the parser either rejects a data line (ParserError) or
\* yields rows of text fragments.
ReadCsv(f, d) ==
  IF f.header = <<>> THEN {LoadError("EmptyDataError")}
  ELSE LET columns == HeaderNames(SplitOn(Join(f.header, f.sep), d))
       IN IF d = f.sep
          THEN {Loaded(Frame(columns, f.rows))}
          ELSE {Loaded(Frame(columns,
                   [i \in 1..Len(f.rows) |-> [j \in 1..Len(columns) |-> Junk]]))}
               \cup (IF f.rows = <<>> THEN {} ELSE {LoadError("ParserError")})

\* convert_to_csv: an .ods or .json table is written out comma-separated;
\* for any other extension the ValueError is caught and "" is returned
ConvertedToCsv(f) ==
  IF f.ext \in {"ods", "json"} THEN [f EXCEPT !.sep = ",", !.extra = {}]
  ELSE [f EXCEPT !.header = <<>>, !.rows = <<>>]

\* the branch on the file name's extension, tasks.py:129-142
ReadFile(f) ==
  IF f.ext \in {"csv", "txt"} THEN ReadCsv(f, Delimiter(f))
  ELSE IF f.ext \in {"xlsx", "xls"} THEN {Loaded(Frame(f.header, f.rows))}
  ELSE ReadCsv(ConvertedToCsv(f), ",")

\* tasks.py:145-146: the frame's column names are cleaned in place
WithCleanColumns(frame) == [frame EXCEPT !.columns = CleanColumns(frame.columns)]

(***************************************************************************)
(* State.                                                                  *)
(*   registry     BANK_MAPPINGS[bank][kind]['columns'], which line 157     *)
(*                overwrites                                               *)
(*   BookingData, RefundData   the two tables, in insertion order          *)
(*   pc, task, df, idx, row    each worker's place in the task, its        *)
(*                arguments, its frame, the loop's row number and the row  *)
(*                as lines 183-185 / 213-216 coerced it                    *)
(*   result       the string the task returned                             *)
(* and, recorded beside the program's state for the properties:            *)
(*   runs         invocations so far                                       *)
(*   checks       per worker, the rows of this run whose existence was     *)
(*                queried                                                  *)
(*   created      per worker, the records this run inserted                *)
(*   finished     the runs that have returned, in the order they did       *)
(*   concurrent   whether two runs have ever overlapped                    *)
(*   rawName, cleanName, normStep   the column name drawn for the          *)
(*                normalization, its cleaned form, and how often it was    *)
(*                cleaned                                                  *)
(*   cell, coerced   the field and cell drawn for the coercion of lines    *)
(*                171-172, 183-185, 201-202, 213-216, and its outcome      *)
(***************************************************************************)
VARIABLES registry, BookingData, RefundData, pc, task, df, idx, row, result,
          runs, checks, created, finished, concurrent, rawName, cleanName,
          normStep, cell, coerced

vars == <<registry, BookingData, RefundData, pc, task, df, idx, row, result,
          runs, checks, created, finished, concurrent, rawName, cleanName, normStep, cell, coerced>>

NoTask == [file |-> "", bank |-> "", kind |-> ""]
NoRow == <<>>
NoResult == [status |-> "none", file |-> "", error |-> "", detail |-> <<>>]

\* f"Successfully processed {file_name}"   (tasks.py:233)
Success(file) ==
  [status |-> "Successfully processed", file |-> file, error |-> "", detail |-> <<>>]

\* f"Failed to process {file_name}: {str(e)}"   (tasks.py:237)
Failure(file, e, detail) ==
  [status |-> "Failed to process", file |-> file, error |-> e, detail |-> detail]

Active(w) == pc[w] \notin {"idle", "done"}

NoCell == [field |-> <<>>, c |-> NaN]
NotCoerced == [state |-> "none", v |-> <<>>]
CoercedTo(v) == [state |-> "value", v |-> v]
CoercionRaised == [state |-> "raised", v |-> <<>>]

(***************************************************************************)
(* The storage layer: models.py and the three ORM calls the task makes.    *)
(***************************************************************************)
\* an existence query that compares every field of the row
ExistsSameRecord(table, r) ==
  \E i \in 1..Len(table) : table[i] = r

\* BookingData.objects.filter(irctc_order_no=..., bank_booking_ref_no=...).exists()
\* and the same query on RefundData (tasks.py:187, 218)
Exists(table, r) ==
  \E i \in 1..Len(table) :
    /\ table[i].irctc_order_no = r.irctc_order_no
    /\ table[i].bank_booking_ref_no = r.bank_booking_ref_no

\* unique_bookingdata_constraint (models.py:13-16)
BookingConflict(table, r) ==
  \E i \in 1..Len(table) :
    /\ table[i].txn_date = r.txn_date
    /\ table[i].bank_code = r.bank_code
    /\ table[i].credited_date = r.credited_date
    /\ table[i].irctc_order_no = r.irctc_order_no
    /\ table[i].bank_booking_ref_no = r.bank_booking_ref_no

\* unique_refunddata_constraint (models.py:29-32)
RefundConflict(table, r) ==
  \E i \in 1..Len(table) :
    /\ table[i].refund_date = r.refund_date
    /\ table[i].bank_code = r.bank_code
    /\ table[i].debited_date = r.debited_date
    /\ table[i].irctc_order_no = r.irctc_order_no
    /\ table[i].bank_booking_ref_no = r.bank_booking_ref_no
    /\ table[i].bank_refund_ref_no = r.bank_refund_ref_no

(***************************************************************************)
(* Frames.                                                                 *)
(***************************************************************************)
ColIndex(columns, name) == CHOOSE j \in 1..Len(columns) : columns[j] = name

\* df[required_columns]   (tasks.py:167)
SelectColumns(frame, required) ==
  Frame(required,
        [i \in 1..Len(frame.rows) |->
           [k \in 1..Len(required) |->
              frame.rows[i][ColIndex(frame.columns, required[k])]]])

\* df[name] = df[name].apply(fn)
ApplyColumn(frame, name, fn(_)) ==
  LET j == ColIndex(frame.columns, name)
  IN [frame EXCEPT !.rows =
        [i \in 1..Len(frame.rows) |->
           [frame.rows[i] EXCEPT ![j] = fn(frame.rows[i][j])]]]

\* row[name]
At(frame, i, name) == frame.rows[i][ColIndex(frame.columns, name)]

\* a check that stops at the first column it misses
first_missing_column(required, columns) ==
  LET all == SelectSeq(required, LAMBDA col : ~InSeq(col, columns))
  IN IF all = <<>> THEN <<>> ELSE <<all[1]>>

\* [col for col in required_columns if col not in df.columns]   (tasks.py:161)
missing_columns(required, columns) ==
  SelectSeq(required, LAMBDA col : ~InSeq(col, columns))

(***************************************************************************)
(* The files submitted to the task.                                        *)
(***************************************************************************)
KvBookingHeader ==
  <<N_TXN_DATE, N_IRCTC_ORDER_NO, N_BANK_BOOKING_REF_NO, N_BOOKING_AMOUNT,
    N_CREDITED_ON>>
KvRefundHeader ==
  <<N_REFUND_DATE, N_IRCTC_ORDER_NO, N_BANK_BOOKING_REF_NO,
    N_BANK_REFUND_REF_NO, N_REFUND_AMOUNT, N_DEBITED_ON>>
BookingFields ==
  <<F_txn_date, F_irctc_order_no, F_bank_booking_ref_no, F_booking_amount,
    F_credited_date>>

File(name, ext, sep, header, extra, rows) ==
  [name |-> name, ext |-> ext, sep |-> sep, header |-> header,
   extra |-> extra, rows |-> rows]

D1 == DateText(2024, 1, 1)
D2 == DateText(2024, 1, 5)
D3 == DateText(2024, 3, 9)

\* 01-Jan-24,12345,67890,1500.50,05-Jan-24
ScenarioRow == <<D1, Num(12345), Num(67890), Dec(150050), D2>>
\* a row with a whitespace-only date, an empty order number and a malformed amount
GapRow == <<Blank, NaN, Num(5), Junk, D2>>
\* a row whose order number is not a numeral
WordRow == <<D1, Junk, Num(7), Dec(2000), D2>>
\* the order and reference of ScenarioRow under other dates and amount
RedatedRow == <<D3, Num(12345), Num(67890), Dec(99), D3>>
\* a row with nothing but its order and reference, and one that repeats them
BareRow == <<NaN, Num(6), Num(6), NaN, NaN>>
RepeatRow == <<D1, Num(6), Num(6), Dec(100), D2>>

Files ==
  { File("kv_booking.csv", "csv", ",", KvBookingHeader, {"."}, <<ScenarioRow>>),
    File("kv_gaps.csv", "csv", ",", KvBookingHeader, {"."},
         <<GapRow, WordRow, ScenarioRow>>),
    File("kv_redated.csv", "csv", ",", KvBookingHeader, {"."},
         <<RedatedRow, BareRow>>),
    File("kv_two.csv", "csv", ",", KvBookingHeader, {"."},
         <<BareRow, ScenarioRow, RepeatRow>>),
    \* semicolon-separated, with a comma inside an amount
    File("kv_booking.txt", "txt", ";", KvBookingHeader, {",", "."}, <<ScenarioRow>>),
    \* TXN_DATE for TXN DATE, and no CREDITED ON column
    File("kv_short.csv", "csv", ",",
         <<H_TXN_DATE_us, N_IRCTC_ORDER_NO, N_BANK_BOOKING_REF_NO, N_BOOKING_AMOUNT>>,
         {"."}, << <<D1, Num(1), Num(2), Dec(100)>> >>),
    \* two refunds of one booking, then a row with a blank refund reference
    File("kv_refund.xlsx", "xlsx", "", KvRefundHeader, {},
         << <<D1, Num(12345), Num(67890), Num(8), Dec(150050), D2>>,
            <<D1, Num(12345), Num(67890), Num(9), Dec(150050), D2>>,
            <<Junk, Num(2), Num(1), Blank, Junk, Blank>> >>),
    \* the bank's columns followed by columns already named as the fields
    File("kv_fields.json", "json", "", KvBookingHeader \o BookingFields, {},
         <<ScenarioRow \o RedatedRow>>),
    File("scan.pdf", "pdf", "", KvBookingHeader, {}, <<ScenarioRow>>) }

FileNames == {f.name : f \in Files}
FileByName(n) == CHOOSE f \in Files : f.name = n

\* what the loader makes of each file: the outcomes of ReadFile, by file name
Loads == [n \in FileNames |-> ReadFile(FileByName(n))]

Submission(file, bank, kind) == [file |-> file, bank |-> bank, kind |-> kind]

\* the invocations the task queue delivers: each file for the bank and kind
\* it was written for, for other registered entries, and for a bank or a
\* kind the registry does not hold
Submissions ==
  { Submission("kv_booking.csv", "karur_vysya", "booking"),
    Submission("kv_booking.csv", "hdfc", "booking"),
    Submission("kv_booking.csv", "icici", "booking"),
    Submission("kv_booking.csv", "karur_vysya", "refund"),
    Submission("kv_booking.csv", "unknown_bank", "booking"),
    Submission("kv_booking.csv", "karur_vysya", "settlement"),
    Submission("kv_gaps.csv", "karur_vysya", "booking"),
    Submission("kv_redated.csv", "karur_vysya", "booking"),
    Submission("kv_two.csv", "karur_vysya", "booking"),
    Submission("kv_booking.txt", "karur_vysya", "booking"),
    Submission("kv_short.csv", "karur_vysya", "booking"),
    Submission("kv_refund.xlsx", "karur_vysya", "refund"),
    Submission("kv_refund.xlsx", "icici", "settlement"),
    Submission("kv_fields.json", "karur_vysya", "booking"),
    Submission("scan.pdf", "karur_vysya", "booking") }

(***************************************************************************)
(* process_uploaded_files, tasks.py:119-237.  Every raise inside the try   *)
(* block ends in the handler of lines 235-237, which returns the failure   *)
(* string.                                                                 *)
(***************************************************************************)
Init ==
  /\ registry = BANK_MAPPINGS
  /\ BookingData = <<>>
  /\ RefundData = <<>>
  /\ pc = [w \in Workers |-> "idle"]
  /\ task = [w \in Workers |-> NoTask]
  /\ df = [w \in Workers |-> NoFrame]
  /\ idx = [w \in Workers |-> 0]
  /\ row = [w \in Workers |-> NoRow]
  /\ result = [w \in Workers |-> NoResult]
  /\ runs = 0
  /\ checks = [w \in Workers |-> <<>>]
  /\ created = [w \in Workers |-> <<>>]
  /\ finished = <<>>
  /\ concurrent = FALSE
  /\ rawName = <<>>
  /\ cleanName = <<>>
  /\ normStep = 0
  /\ cell = NoCell
  /\ coerced = NotCoerced

\* a handler that returns the success string
RaiseReturnsSuccess(w, e, detail) ==
  /\ pc' = [pc EXCEPT ![w] = "done"]
  /\ result' = [result EXCEPT ![w] = Success(task[w].file)]
  /\ finished' = Append(finished, [worker |-> w, task |-> task[w]])

\* a handler that lets the exception escape: the task returns nothing
RaiseEscapes(w, e, detail) ==
  /\ pc' = [pc EXCEPT ![w] = "done"]
  /\ result' = [result EXCEPT ![w] = NoResult]
  /\ finished' = Append(finished, [worker |-> w, task |-> task[w]])

\* except Exception as e: return f"Failed to process {file_name}: {str(e)}"
Raise(w, e, detail) ==
  /\ pc' = [pc EXCEPT ![w] = "done"]
  /\ result' = [result EXCEPT ![w] = Failure(task[w].file, e, detail)]
  /\ finished' = Append(finished, [worker |-> w, task |-> task[w]])

\* return f"Successfully processed {file_name}"
Return(w) ==
  /\ pc' = [pc EXCEPT ![w] = "done"]
  /\ result' = [result EXCEPT ![w] = Success(task[w].file)]
  /\ finished' = Append(finished, [worker |-> w, task |-> task[w]])

\* a worker takes the task off the queue with its arguments
Begin(w, t, at, frame) ==
  /\ ~Active(w)
  /\ runs < MaxRuns
  /\ runs' = runs + 1
  /\ task' = [task EXCEPT ![w] = t]
  /\ pc' = [pc EXCEPT ![w] = at]
  /\ df' = [df EXCEPT ![w] = frame]
  /\ idx' = [idx EXCEPT ![w] = 0]
  /\ row' = [row EXCEPT ![w] = NoRow]
  /\ result' = [result EXCEPT ![w] = NoResult]
  /\ checks' = [checks EXCEPT ![w] = <<>>]
  /\ created' = [created EXCEPT ![w] = <<>>]
  /\ concurrent' = (concurrent \/ \E v \in Workers \ {w} : Active(v))
  /\ UNCHANGED <<registry, BookingData, RefundData, finished, rawName, cleanName, normStep, cell, coerced>>

\* process_uploaded_files(file_content, file_name, bank_name, transaction_type)
Invoke(w) ==
  \E t \in Submissions : Begin(w, t, "load", NoFrame)

\* tasks.py:124-147: read the file by its extension, clean the column names
Load(w) ==
  /\ pc[w] = "load"
  /\ \E out \in Loads[task[w].file] :
       IF out.raised # ""
       THEN /\ Raise(w, out.raised, <<>>)
            /\ UNCHANGED df
       ELSE /\ df' = [df EXCEPT ![w] = WithCleanColumns(out.frame)]
            /\ pc' = [pc EXCEPT ![w] = "lookup"]
            /\ UNCHANGED <<result, finished>>
  /\ UNCHANGED <<registry, BookingData, RefundData, task, idx, row, runs, checks,
                 created, concurrent, rawName, cleanName, normStep, cell, coerced>>

\* tasks.py:150-157: the registry entry, and its 'columns' cleaned in place
Lookup(w) ==
  /\ pc[w] = "lookup"
  /\ IF ~HasMapping(registry, task[w].bank, task[w].kind)
     THEN /\ Raise(w, "NoMapping", <<>>)
          /\ UNCHANGED registry
     ELSE /\ registry' = [registry EXCEPT ![task[w].bank][task[w].kind] =
                            CleanColumns(registry[task[w].bank][task[w].kind])]
          /\ pc' = [pc EXCEPT ![w] = "columns"]
          /\ UNCHANGED <<result, finished>>
  /\ UNCHANGED <<BookingData, RefundData, task, df, idx, row, runs, checks, created,
                 concurrent, rawName, cleanName, normStep, cell, coerced>>

\* tasks.py:160-167: the missing-columns check, then df = df[required_columns]
CheckColumns(w) ==
  /\ pc[w] = "columns"
  /\ LET required_columns == registry[task[w].bank][task[w].kind]
         missing == missing_columns(required_columns, df[w].columns)
     IN IF missing # <<>>
        THEN /\ Raise(w, "MissingColumns", missing)
             /\ UNCHANGED df
        ELSE /\ df' = [df EXCEPT ![w] = SelectColumns(df[w], required_columns)]
             /\ pc' = [pc EXCEPT ![w] = "dates"]
             /\ UNCHANGED <<result, finished>>
  /\ UNCHANGED <<registry, BookingData, RefundData, task, idx, row, runs, checks,
                 created, concurrent, rawName, cleanName, normStep, cell, coerced>>

\* the two date columns the branch of transaction_type reads and rewrites
DateFields(kind) ==
  IF kind = "booking" THEN <<F_txn_date, F_credited_date>>
  ELSE <<F_refund_date, F_debited_date>>

\* tasks.py:170-180 and 200-210 on a frame: df[name] raises KeyError for a
\* column the frame does not hold; otherwise both date columns are parsed and
\* the bank code is looked up.  A transaction_type that is neither takes no
\* branch.
PrepareFrame(w, frame) ==
  /\ pc[w] = "dates"
  /\ LET fields == DateFields(task[w].kind)
     IN IF task[w].kind \notin {"booking", "refund"}
        THEN /\ Return(w)
             /\ UNCHANGED <<df, idx>>
        ELSE IF ~InSeq(fields[1], frame.columns)
        THEN /\ Raise(w, "KeyError", <<fields[1]>>)
             /\ UNCHANGED <<df, idx>>
        ELSE IF ~InSeq(fields[2], frame.columns)
        THEN /\ Raise(w, "KeyError", <<fields[2]>>)
             /\ UNCHANGED <<df, idx>>
        ELSE IF BANK_CODE_MAPPING(task[w].bank) = NoCode
        THEN /\ Raise(w, "NoBankCode", <<>>)
             /\ UNCHANGED <<df, idx>>
        ELSE /\ df' = [df EXCEPT ![w] =
                         ApplyColumn(ApplyColumn(frame, fields[1], try_parse_date),
                                     fields[2], try_parse_date)]
             /\ idx' = [idx EXCEPT ![w] = 1]
             /\ pc' = [pc EXCEPT ![w] = "rows"]
             /\ UNCHANGED <<result, finished>>
  /\ UNCHANGED <<registry, BookingData, RefundData, task, row, runs, checks, created,
                 concurrent, rawName, cleanName, normStep, cell, coerced>>

\* the task as written: the frame is the one line 167 left
PrepareRows(w) == PrepareFrame(w, df[w])

\* the rename of the frame's columns by the entry's column_mapping, a key
\* that names no column being ignored
RenameColumns(frame, mapping) ==
  [frame EXCEPT !.columns =
     [j \in 1..Len(frame.columns) |->
        IF \E p \in mapping : p[1] = frame.columns[j]
        THEN (CHOOSE p \in mapping : p[1] = frame.columns[j])[2]
        ELSE frame.columns[j]]]

\* the same step on the frame renamed by the entry's column_mapping
PrepareRenamedRows(w) ==
  PrepareFrame(w, RenameColumns(df[w], column_mapping(task[w].bank, task[w].kind)))

\* the row as tasks.py:183-185 / 213-216 coerce it and as create() takes it
BookingRow(w) ==
  [bank_code |-> BANK_CODE_MAPPING(task[w].bank),
   txn_date |-> At(df[w], idx[w], F_txn_date),
   credited_date |-> At(df[w], idx[w], F_credited_date),
   booking_amount |-> to_numeric(At(df[w], idx[w], F_booking_amount)),
   irctc_order_no |-> IntOrZero(At(df[w], idx[w], F_irctc_order_no)),
   bank_booking_ref_no |-> IntOrZero(At(df[w], idx[w], F_bank_booking_ref_no))]

RefundRow_(w) ==
  [bank_code |-> BANK_CODE_MAPPING(task[w].bank),
   refund_date |-> At(df[w], idx[w], F_refund_date),
   debited_date |-> At(df[w], idx[w], F_debited_date),
   refund_amount |-> to_numeric(At(df[w], idx[w], F_refund_amount)),
   irctc_order_no |-> IntOrZero(At(df[w], idx[w], F_irctc_order_no)),
   bank_booking_ref_no |-> IntOrZero(At(df[w], idx[w], F_bank_booking_ref_no)),
   bank_refund_ref_no |-> IntOrZero(At(df[w], idx[w], F_bank_refund_ref_no))]

\* the reference fields line 183-184 / 213-215 hand to int()
ReferenceFields(kind) ==
  IF kind = "booking" THEN <<F_irctc_order_no, F_bank_booking_ref_no>>
  ELSE <<F_irctc_order_no, F_bank_booking_ref_no, F_bank_refund_ref_no>>

CoercionRaises(w) ==
  \E k \in 1..Len(ReferenceFields(task[w].kind)) :
    IntOrZeroRaises(At(df[w], idx[w], ReferenceFields(task[w].kind)[k]))

\* one pass of the loop up to the existence query: tasks.py:182-188, 212-219
CheckRow(w) ==
  /\ pc[w] = "rows"
  /\ idx[w] <= Len(df[w].rows)
  /\ IF CoercionRaises(w)
     THEN /\ Raise(w, "ValueError", <<>>)
          /\ UNCHANGED <<idx, row, checks>>
     ELSE LET r == IF task[w].kind = "booking" THEN BookingRow(w) ELSE RefundRow_(w)
              table == IF task[w].kind = "booking" THEN BookingData ELSE RefundData
          IN /\ checks' = [checks EXCEPT ![w] = Append(@, idx[w])]
             /\ IF Exists(table, r)
                THEN /\ idx' = [idx EXCEPT ![w] = @ + 1]
                     /\ UNCHANGED <<pc, row>>
                ELSE /\ row' = [row EXCEPT ![w] = r]
                     /\ pc' = [pc EXCEPT ![w] = "create"]
                     /\ UNCHANGED idx
             /\ UNCHANGED <<result, finished>>
  /\ UNCHANGED <<registry, BookingData, RefundData, task, df, runs, created,
                 concurrent, rawName, cleanName, normStep, cell, coerced>>

\* BookingData.objects.create(...) / RefundData.objects.create(...):
\* tasks.py:190-198, 221-230.  The unique constraint rejects the insert with
\* an IntegrityError, which nothing in the loop catches.
CreateRow(w) ==
  /\ pc[w] = "create"
  /\ IF task[w].kind = "booking"
     THEN IF BookingConflict(BookingData, row[w])
          THEN /\ Raise(w, "IntegrityError", <<>>)
               /\ UNCHANGED <<BookingData, RefundData, idx, created>>
          ELSE /\ BookingData' = Append(BookingData, row[w])
               /\ created' = [created EXCEPT ![w] = Append(@, row[w])]
               /\ idx' = [idx EXCEPT ![w] = @ + 1]
               /\ pc' = [pc EXCEPT ![w] = "rows"]
               /\ UNCHANGED <<RefundData, result, finished>>
     ELSE IF RefundConflict(RefundData, row[w])
          THEN /\ Raise(w, "IntegrityError", <<>>)
               /\ UNCHANGED <<BookingData, RefundData, idx, created>>
          ELSE /\ RefundData' = Append(RefundData, row[w])
               /\ created' = [created EXCEPT ![w] = Append(@, row[w])]
               /\ idx' = [idx EXCEPT ![w] = @ + 1]
               /\ pc' = [pc EXCEPT ![w] = "rows"]
               /\ UNCHANGED <<BookingData, result, finished>>
  /\ UNCHANGED <<registry, task, df, row, runs, checks, concurrent, rawName,
                 cleanName, normStep, cell, coerced>>

\* the loop is exhausted: tasks.py:232-233
Finish(w) ==
  /\ pc[w] = "rows"
  /\ idx[w] > Len(df[w].rows)
  /\ Return(w)
  /\ UNCHANGED <<registry, BookingData, RefundData, task, df, idx, row, runs, checks,
                 created, concurrent, rawName, cleanName, normStep, cell, coerced>>

(***************************************************************************)
(* Spec: the task from its invocation.                                     *)
(***************************************************************************)
Next ==
  \E w \in Workers :
    \/ Invoke(w)
    \/ Load(w)
    \/ Lookup(w)
    \/ CheckColumns(w)
    \/ PrepareRows(w)

Spec == Init /\ [][Next]_vars

(***************************************************************************)
(* SpecRenamed: the task with the frame's columns renamed to the field     *)
(* names before the branch of transaction_type reads them, which is the    *)
(* only way into the row loops of tasks.py:182-230.                        *)
(***************************************************************************)
NextRenamed ==
  \E w \in Workers :
    \/ Invoke(w)
    \/ Load(w)
    \/ Lookup(w)
    \/ CheckColumns(w)
    \/ PrepareRenamedRows(w)
    \/ CheckRow(w)
    \/ CreateRow(w)
    \/ Finish(w)

SpecRenamed == Init /\ [][NextRenamed]_vars

(***************************************************************************)
(* SpecNorm: the cleaning of one column name, applied to every name over   *)
(* NormAlphabet of at most MaxNameLen characters, and applied again to     *)
(* its own result.                                                         *)
(***************************************************************************)
NormAlphabet == {"A", "b", "7", " ", ".", "_"}

NamesUpTo(n) == UNION {[1..k -> NormAlphabet] : k \in 0..n}

InitNorm ==
  /\ registry = BANK_MAPPINGS
  /\ BookingData = <<>>
  /\ RefundData = <<>>
  /\ pc = [w \in Workers |-> "idle"]
  /\ task = [w \in Workers |-> NoTask]
  /\ df = [w \in Workers |-> NoFrame]
  /\ idx = [w \in Workers |-> 0]
  /\ row = [w \in Workers |-> NoRow]
  /\ result = [w \in Workers |-> NoResult]
  /\ runs = 0
  /\ checks = [w \in Workers |-> <<>>]
  /\ created = [w \in Workers |-> <<>>]
  /\ finished = <<>>
  /\ concurrent = FALSE
  /\ rawName \in NamesUpTo(MaxNameLen)
  /\ cleanName = <<>>
  /\ normStep = 0
  /\ cell = NoCell
  /\ coerced = NotCoerced

NormFrame ==
  UNCHANGED <<registry, BookingData, RefundData, pc, task, df, idx, row, result,
              runs, checks, created, finished, concurrent, rawName, cell, coerced>>

\* tasks.py:145-146 / 155 on the drawn name
CleanHeader ==
  /\ normStep = 0
  /\ cleanName' = CleanColumn(rawName)
  /\ normStep' = 1
  /\ NormFrame

\* ... and on its own result, as the second run cleans mappings['columns']
CleanAgain ==
  /\ normStep = 1
  /\ cleanName' = CleanColumn(cleanName)
  /\ normStep' = 2
  /\ NormFrame

NextNorm == CleanHeader \/ CleanAgain

SpecNorm == InitNorm /\ [][NextNorm]_vars

(***************************************************************************)
(* SpecCoerce: the coercion of one cell of one field, as the branch of     *)
(* transaction_type and the loop body write it: try_parse_date for the     *)
(* date fields (tasks.py:171-172, 201-202), int(x) if pd.notnull(x) else 0 *)
(* for the reference fields (183-184, 213-215), pd.to_numeric for the      *)
(* amounts (185, 216).                                                     *)
(***************************************************************************)
DateFieldNames == {F_txn_date, F_credited_date, F_refund_date, F_debited_date}
ReferenceFieldNames == {F_irctc_order_no, F_bank_booking_ref_no, F_bank_refund_ref_no}
AmountFieldNames == {F_booking_amount, F_refund_amount}

\* the cells drawn: empty, blank, text, numerals, decimals and dates
CoerceCells ==
  {NaN, Blank, Junk, D1, D2, D3}
    \cup {Num(n) : n \in 0..MaxNumeral} \cup {Dec(h) : h \in 0..MaxNumeral}

InitCoerce ==
  /\ registry = BANK_MAPPINGS
  /\ BookingData = <<>>
  /\ RefundData = <<>>
  /\ pc = [w \in Workers |-> "idle"]
  /\ task = [w \in Workers |-> NoTask]
  /\ df = [w \in Workers |-> NoFrame]
  /\ idx = [w \in Workers |-> 0]
  /\ row = [w \in Workers |-> NoRow]
  /\ result = [w \in Workers |-> NoResult]
  /\ runs = 0
  /\ checks = [w \in Workers |-> <<>>]
  /\ created = [w \in Workers |-> <<>>]
  /\ finished = <<>>
  /\ concurrent = FALSE
  /\ rawName = <<>>
  /\ cleanName = <<>>
  /\ normStep = 0
  /\ cell \in { [field |-> f, c |-> c] :
                  f \in DateFieldNames \cup ReferenceFieldNames \cup AmountFieldNames,
                  c \in CoerceCells }
  /\ cell.field \in DateFieldNames => cell.c.t \in {"nan", "blank", "date", "text"}
  /\ coerced = NotCoerced

Coerce ==
  /\ coerced = NotCoerced
  /\ coerced' =
       IF cell.field \in DateFieldNames THEN CoercedTo(try_parse_date(cell.c))
       ELSE IF cell.field \in AmountFieldNames THEN CoercedTo(to_numeric(cell.c))
       ELSE IF IntOrZeroRaises(cell.c) THEN CoercionRaised
       ELSE CoercedTo(<<IntOrZero(cell.c)>>)
  /\ UNCHANGED <<registry, BookingData, RefundData, pc, task, df, idx, row, result,
                 runs, checks, created, finished, concurrent, rawName, cleanName,
                 normStep, cell>>

NextCoerce == Coerce

SpecCoerce == InitCoerce /\ [][NextCoerce]_vars

(***************************************************************************)
(* Vocabulary of the properties.                                           *)
(***************************************************************************)
SetOf(s) == {s[i] : i \in 1..Len(s)}

Done(w) == pc[w] = "done"
Failed(w) == Done(w) /\ result[w].status = "Failed to process"
Succeeded(w) == Done(w) /\ result[w].status = "Successfully processed"

\* the run has got past the registry lookup with a table loaded
PastLookup(w) ==
  \/ pc[w] \in {"columns", "dates", "rows", "create"}
  \/ Done(w) /\ result[w].error \notin {"EmptyDataError", "ParserError", "NoMapping"}

\* a submission's file always loads
AlwaysLoads(t) == \A o \in Loads[t.file] : o.raised = ""

\* the cleaned headers of the table the loader makes of each submission's
\* file, and the cleaned required columns of its registry entry
Headers ==
  [t \in Submissions |->
     LET out == CHOOSE o \in Loads[t.file] : o.raised = ""
     IN SetOf(CleanColumns(out.frame.columns))]
Required ==
  [t \in Submissions |-> SetOf(CleanColumns(BANK_MAPPINGS[t.bank][t.kind]))]

LoadedHeaders(t) == Headers[t]
RequiredColumns(t) == Required[t]

\* a file that loads, for a registered (bank, kind) whose columns it holds
ValidSubmissions ==
  {t \in Submissions :
     /\ HasMapping(BANK_MAPPINGS, t.bank, t.kind)
     /\ AlwaysLoads(t)
     /\ Required[t] \subseteq Headers[t]}
ValidSubmission(t) == t \in ValidSubmissions

Scenario == Submission("kv_booking.csv", "karur_vysya", "booking")

\* bank_code=40, txn_date=2024-01-01, irctc_order_no=12345,
\* bank_booking_ref_no=67890, booking_amount=1500.50, credited_date=2024-01-05
ScenarioRecord ==
  [bank_code |-> 40, txn_date |-> <<2024, 1, 1>>, credited_date |-> <<2024, 1, 5>>,
   booking_amount |-> <<150050>>, irctc_order_no |-> 12345,
   bank_booking_ref_no |-> 67890]

(***************************************************************************)
(* C1.  One run of the task on the scenario file (kv_booking.csv for       *)
(* karur_vysya, booking), the tables empty before it, ends with exactly    *)
(* the scenario's record in BookingData and returns the success string.    *)
(* The code raises KeyError at df['txn_date'] (tasks.py:171): the frame    *)
(* holds the cleaned bank columns, which nothing renames to the fields.    *)
(***************************************************************************)
C1_ScenarioStoresOneBooking ==
  \A w \in Workers :
    (Done(w) /\ task[w] = Scenario /\ runs = 1) =>
      /\ BookingData = <<ScenarioRecord>>
      /\ result[w] = Success("kv_booking.csv")

(***************************************************************************)
(* C2.  A run that repeats an earlier run's valid submission, no run ever  *)
(* overlapping another, queries every row, inserts none of them and        *)
(* returns the success string.                                             *)
(***************************************************************************)
C2_SecondRunSkipsAndSucceeds ==
  \A w \in Workers :
    ( /\ Done(w)
      /\ ~concurrent
      /\ ValidSubmission(task[w])
      /\ Len(finished) >= 2
      /\ finished[Len(finished)] = [worker |-> w, task |-> task[w]]
      /\ \E j \in 1..(Len(finished) - 1) : finished[j].task = task[w] ) =>
        /\ result[w] = Success(task[w].file)
        /\ created[w] = <<>>
        /\ SetOf(checks[w]) = 1..Len(FileByName(task[w].file).rows)

(***************************************************************************)
(* C3.  A run for a bank or a kind the registry has no entry for returns   *)
(* the failure string naming its file, having queried the existence of no  *)
(* row and inserted none.                                                  *)
(***************************************************************************)
C3_UnknownMappingFails ==
  \A w \in Workers :
    (task[w] # NoTask /\ ~HasMapping(BANK_MAPPINGS, task[w].bank, task[w].kind)) =>
      /\ checks[w] = <<>>
      /\ created[w] = <<>>
      /\ pc[w] \in {"load", "lookup", "done"}
      /\ Done(w) => /\ result[w].status = "Failed to process"
                    /\ result[w].file = task[w].file

C3_Witness ==
  \E w \in Workers :
    /\ Failed(w)
    /\ task[w].bank = "unknown_bank"
    /\ result[w].error = "NoMapping"
    /\ BookingData = <<>> /\ RefundData = <<>>

(***************************************************************************)
(* C4.  Past the registry lookup with a table loaded: if every cleaned     *)
(* required column is among the cleaned headers the run has not failed     *)
(* for missing columns; otherwise it has failed with MissingColumns, the   *)
(* reported list holds each absent cleaned required column once and        *)
(* nothing else, and no row was queried or inserted.                       *)
(***************************************************************************)
C4_MissingColumnsExact ==
  \A w \in Workers :
    (PastLookup(w) /\ pc[w] # "columns") =>
      LET absent == RequiredColumns(task[w]) \ LoadedHeaders(task[w])
      IN IF absent = {}
         THEN ~(Done(w) /\ result[w].error = "MissingColumns")
         ELSE /\ Failed(w)
              /\ result[w].error = "MissingColumns"
              /\ SetOf(result[w].detail) = absent
              /\ Len(result[w].detail) = Cardinality(absent)
              /\ checks[w] = <<>>
              /\ created[w] = <<>>

C4_Witness ==
  \E w, v \in Workers :
    /\ Failed(w)
    /\ result[w].error = "MissingColumns"
    /\ Len(result[w].detail) >= 2
    /\ Len(result[w].detail) < Cardinality(RequiredColumns(task[w]))
    /\ pc[v] = "dates"

(***************************************************************************)
(* C5.  The coercion of a reference field never raises, and makes 0 of a   *)
(* cell that is empty or is not a numeral.                                 *)
(* The code hands every non-null cell to int() (tasks.py:183-184,          *)
(* 213-215), which raises ValueError on text; the handler of lines 235-237 *)
(* then ends the run.                                                      *)
(***************************************************************************)
C5_ReferenceCoercionNeverRaises ==
  (coerced # NotCoerced /\ cell.field \in ReferenceFieldNames) =>
    /\ coerced # CoercionRaised
    /\ cell.c.t # "int" => coerced = CoercedTo(<<0>>)

(***************************************************************************)
(* C6.  Two overlapping runs on files that share a row, both returned:     *)
(* one of them inserted the row (the shared key is stored once), and a run *)
(* that failed is the one whose insert the unique constraint rejected.     *)
(***************************************************************************)
C6_SharedRowStoredOnce ==
  \A w, v \in Workers :
    ( /\ w # v
      /\ Done(w) /\ Done(v)
      /\ concurrent
      /\ task[w] = Scenario /\ task[v] = Scenario ) =>
        /\ Cardinality({i \in 1..Len(BookingData) : BookingData[i] = ScenarioRecord}) = 1
        /\ Failed(w) => result[w].error = "IntegrityError"

(***************************************************************************)
(* C7.  A run returns exactly one status string, at its end: none while it *)
(* runs, and the success or the failure string naming its file once it is  *)
(* done.  When it failed at row k (idx = k), no row after k was queried,   *)
(* only rows before k were inserted, and every record it inserted is still *)
(* in its table.                                                           *)
(***************************************************************************)
TableOf(w) == IF task[w].kind = "booking" THEN BookingData ELSE RefundData

NarrowKey(r) == <<r.irctc_order_no, r.bank_booking_ref_no>>

NoNarrowDuplicate(table) ==
  \A i, j \in 1..Len(table) : NarrowKey(table[i]) = NarrowKey(table[j]) => i = j

IsPrefix(s, t) == Len(s) <= Len(t) /\ \A i \in 1..Len(s) : t[i] = s[i]

GapCell(c) == c.t \in {"nan", "blank", "text"}

C9_GapRowsReachTheCheck ==
  \A w \in Workers :
    ( /\ Done(w)
      /\ ValidSubmission(task[w])
      /\ task[w].kind = "booking"
      /\ FileByName(task[w].file).header = KvBookingHeader ) =>
      LET rows == FileByName(task[w].file).rows
      IN \A i \in 1..Len(rows) :
           ( /\ GapCell(rows[i][1]) \/ GapCell(rows[i][4]) \/ GapCell(rows[i][5])
             /\ \A j \in 1..i : ~IntOrZeroRaises(rows[j][2]) /\ ~IntOrZeroRaises(rows[j][3]) )
           => InSeq(i, checks[w])

(***************************************************************************)
(* C10.  The cleaned name is the drawn name with every character that is   *)
(* not a letter, a digit or an underscore deleted, so it holds letters,    *)
(* digits and underscores only; cleaning it again changes nothing.         *)
(***************************************************************************)
RECURSIVE KeepOnly(_, _)
KeepOnly(s, keep) ==
  IF s = <<>> THEN <<>>
  ELSE IF Head(s) \in keep THEN <<Head(s)>> \o KeepOnly(Tail(s), keep)
  ELSE KeepOnly(Tail(s), keep)

\* C10 as stated: the cleaned name holds letters and digits only
C10_OnlyLettersAndDigits ==
  normStep >= 1 => SetOf(cleanName) \subseteq Letters \cup Digits

C10_CleanKeepsWordCharacters ==
  normStep >= 1 =>
    /\ SetOf(cleanName) \subseteq Letters \cup Digits \cup {"_"}
    /\ cleanName = KeepOnly(rawName, Letters \cup Digits \cup {"_"})

C10_Witness ==
  /\ normStep = 2
  /\ Len(rawName) = 3
  /\ cleanName = <<"_">>
  /\ " " \in SetOf(rawName)
  /\ "." \in SetOf(rawName)
====
